---- MODULE Spec2Model ----
(***************************************************************************)
(* Model of the git worktree scripts git-worktree-add.ts and               *)
(* git-worktree-remove.ts and of the helpers of git-worktree-utils.ts.     *)
(*                                                                         *)
(* The state is the repository the scripts act on (the git backend) and    *)
(* the record of the last script run.  One action is one whole run of a    *)
(* script (one process invocation): the scripts are single-threaded and    *)
(* synchronous.  Paths, branch names and command output are strings; the   *)
(* string functions of the code (endsWith, replace, split, trim,           *)
(* toLowerCase, length) are computed on them.                              *)
(*                                                                         *)
(* The git commands are modelled by the Git* operators, written from the   *)
(* behaviour of git 2.39 for the commands the scripts issue.               *)
(***************************************************************************)
EXTENDS Integers, Sequences, FiniteSets, TLC

VARIABLES
    bare,        \* TRUE iff the primary entry is a bare repository
    primary,     \* path of the primary entry, listed first by git worktree list
    head,        \* [registered path -> branch checked out there, "" = detached]
    branches,    \* the local branches (refs/heads/*)
    start,       \* [branch made since Init -> the ref it was started from]
    remotes,     \* the remote-tracking branches (refs/remotes/origin/*)
    remoteHead,  \* target of refs/remotes/origin/HEAD, "" when unset
    dirs,        \* non-empty directories that are no worktree
    dirty,       \* registered paths whose working tree has uncommitted changes
    procs,       \* the processes around a run: the add processes running side by
                 \* side [process -> position], or the shell that ran a wrapper
    run          \* the last script run: its inputs, what it did, its outcome

vars == <<bare, primary, head, branches, start, remotes, remoteHead, dirs, dirty,
          procs, run>>

----------------------------------------------------------------------------
(* Bounds of the explored repositories and inputs.                         *)

\* at most this many linked worktrees are registered at a time
MaxLinked == 2

\* at most this many paths in a list given to determineWorktreeBase alone
MaxPaths == 3

\* the answers given to askForConfirmation alone have at most this many
\* characters
MaxAnswerLen == 3

StdPrimary  == "/rr"
BarePrimary == "/b.git"
External    == "/w"      \* a worktree made with plain git outside the base
Outside     == "/o"      \* a directory that is in no repository

\* the branch names given to add
AddNames == {"dev", "f", "x.git"}

\* the answers typed at the confirmation prompt; Interrupted = the prompt threw
Interrupted == "^C"
Answers == {"y", "Yes", "n", "", Interrupted}

\* backend commands that may fail for a reason outside the repository state
Faults == {"list", "show"}
FaultSets == {{}} \cup {{x} : x \in Faults}

\* the queries of discoverMainBranch that may fail: the read of the remote
\* HEAD, the show-ref checks, the branch listing
DiscoverFaults == {"symref", "showref", "branch"}

----------------------------------------------------------------------------
(* Strings.                                                                *)

Char(s, i) == SubSeq(s, i, i)

EndsWith(s, suf) ==
    /\ Len(s) >= Len(suf)
    /\ SubSeq(s, Len(s) - Len(suf) + 1, Len(s)) = suf

StartsWith(s, pre) ==
    /\ Len(s) >= Len(pre)
    /\ SubSeq(s, 1, Len(pre)) = pre

\* the byte order of the characters that occur in paths here
Alphabet == " ()*+-./>ADEHRabcdefghijklmnopqrstuvwxyz"

CharRank(c) == CHOOSE i \in 1..Len(Alphabet) : Char(Alphabet, i) = c

RECURSIVE StrLess(_, _)
StrLess(a, b) ==
    IF Len(a) = 0 THEN Len(b) > 0
    ELSE IF Len(b) = 0 THEN FALSE
    ELSE IF Char(a, 1) = Char(b, 1)
         THEN StrLess(SubSeq(a, 2, Len(a)), SubSeq(b, 2, Len(b)))
         ELSE CharRank(Char(a, 1)) < CharRank(Char(b, 1))

RECURSIVE SortStrings(_)
SortStrings(S) ==
    IF S = {} THEN <<>>
    ELSE LET m == CHOOSE x \in S : \A y \in S \ {x} : StrLess(x, y)
         IN  <<m>> \o SortStrings(S \ {m})

\* String.prototype.trimStart on the characters that occur here
RECURSIVE TrimStart(_)
TrimStart(s) ==
    IF Len(s) > 0 /\ Char(s, 1) = " " THEN TrimStart(SubSeq(s, 2, Len(s))) ELSE s

\* line.split(/\s+/)[0]: the text before the first blank
RECURSIVE FirstColumn(_)
FirstColumn(s) ==
    IF Len(s) = 0 \/ Char(s, 1) = " " THEN ""
    ELSE Char(s, 1) \o FirstColumn(SubSeq(s, 2, Len(s)))

----------------------------------------------------------------------------
(* The git backend.  A context c carries what one script run reads and     *)
(* changes: c.head, c.branches and c.start (the repository), c.out (the    *)
(* WORKTREE_PATH lines written so far), c.calls (the backend commands and  *)
(* prompts issued so far, in order), c.ok (FALSE once a command threw) and *)
(* c.ret (the value returned by the last helper); c.flt names the commands *)
(* that fail in this run for a reason outside the repository state.        *)

Ctx(h, b, st, flt) == [head |-> h, branches |-> b, start |-> st, flt |-> flt,
                       out |-> <<>>, calls |-> <<>>, ok |-> TRUE, ret |-> ""]

Call(c, tag) == [c EXCEPT !.calls = Append(@, tag)]
Throw(c)     == [c EXCEPT !.ok = FALSE]
Ret(c, v)    == [c EXCEPT !.ret = v]

\* the commands that change the repository
Mutations == {"worktree-add", "worktree-add-b", "checkout", "checkout-detach",
              "worktree-remove"}

IsUnder(dir, p) == dir = p \/ StartsWith(dir, p \o "/")

\* git rev-parse --git-dir succeeds in the directories of the repository
InRepo(h, dir) == \E p \in DOMAIN h : IsUnder(dir, p)

\* the worktree a directory belongs to: the innermost registered path above it
WorktreeOf(h, dir) ==
    CHOOSE p \in DOMAIN h :
        /\ IsUnder(dir, p)
        /\ \A q \in DOMAIN h : IsUnder(dir, q) => Len(q) <= Len(p)

IsBareEntry(p) == bare /\ p = primary

\* git refuses to check a branch out twice; the HEAD of a bare repository
\* does not count
CheckedOutElsewhere(h, b, here) ==
    \E p \in DOMAIN h \ {here} : h[p] = b /\ ~IsBareEntry(p)

PathExists(h, path) == path \in DOMAIN h \/ path \in dirs

\* git worktree list: the primary entry first, the linked ones sorted by path
GitWorktreeList(h) ==
    LET Line(p) == p \o "  " \o
                   (IF IsBareEntry(p) THEN "(bare)"
                    ELSE IF h[p] = "" THEN "788e295 (detached HEAD)"
                    ELSE "788e295 [" \o h[p] \o "]")
        linked  == SortStrings(DOMAIN h \ {primary})
    IN  <<Line(primary)>> \o [i \in 1..Len(linked) |-> Line(linked[i])]

\* git branch --list, run in dir: the detached HEAD first, then the local
\* branches by name, each with its selection marker
GitBranchList(h, brs, dir) ==
    LET cur    == WorktreeOf(h, dir)
        names  == SortStrings(brs)
        Mark(b) == IF h[cur] = b THEN "* "
                   ELSE IF \E p \in DOMAIN h \ {cur} : h[p] = b THEN "+ "
                   ELSE "  "
        det    == IF h[cur] = "" THEN <<"* (HEAD detached at 788e295)">> ELSE <<>>
    IN  det \o [i \in 1..Len(names) |-> Mark(names[i]) \o names[i]]

\* a new local branch b started from ref
NewBranch(c, b, ref) ==
    [c EXCEPT !.branches = @ \cup {b},
              !.start = [x \in DOMAIN c.start \cup {b} |->
                           IF x = b THEN ref ELSE c.start[x]]]

\* a new worktree at path with branch b checked out
NewWorktree(c, path, b) ==
    [c EXCEPT !.head = [p \in DOMAIN c.head \cup {path} |->
                          IF p = path THEN b ELSE c.head[p]]]

\* mutant: git registers the worktree without looking for a conflict
GitWorktreeAdd_NoConflict(c, path, b) ==
    IF b \in c.branches THEN NewWorktree(Call(c, "worktree-add"), path, b)
    ELSE Throw(Call(c, "worktree-add"))

\* git worktree add <path> <branch>
GitWorktreeAdd(c, path, b) ==
    LET c1 == Call(c, "worktree-add") IN
    IF b \in c.branches
    THEN IF PathExists(c.head, path) \/ CheckedOutElsewhere(c.head, b, path)
         THEN Throw(c1)
         ELSE NewWorktree(c1, path, b)
    ELSE IF b \in remotes /\ ~PathExists(c.head, path)
    THEN \* no local branch: git makes one from the remote-tracking branch
         NewWorktree(NewBranch(c1, b, "origin/" \o b), path, b)
    ELSE Throw(c1)

\* git worktree add <path> <start> -b <branch>: the branch is made first, then
\* the path is checked, so a refused path leaves the new branch behind
GitWorktreeAddNewBranch(c, path, from, b) ==
    LET c1 == Call(c, "worktree-add-b") IN
    IF b \in c.branches \/ from \notin c.branches
    THEN Throw(c1)
    ELSE IF PathExists(c.head, path)
    THEN Throw(NewBranch(c1, b, from))
    ELSE NewWorktree(NewBranch(c1, b, from), path, b)

\* git checkout <name>, run in dir
GitCheckout(c, dir, name) ==
    LET c1 == Call(c, "checkout")
        w  == WorktreeOf(c.head, dir) IN
    IF ~InRepo(c.head, dir) \/ IsBareEntry(w) THEN Throw(c1)
    ELSE IF name \in c.branches
    THEN IF CheckedOutElsewhere(c.head, name, w) THEN Throw(c1)
         ELSE [c1 EXCEPT !.head[w] = name]
    ELSE IF name \in remotes
    THEN \* git makes the local branch from the remote-tracking one
         [NewBranch(c1, name, "origin/" \o name) EXCEPT !.head[w] = name]
    ELSE Throw(c1)

\* git checkout --detach <name>, run in dir
GitCheckoutDetach(c, dir, name) ==
    LET c1 == Call(c, "checkout-detach")
        w  == WorktreeOf(c.head, dir) IN
    IF ~InRepo(c.head, dir) \/ IsBareEntry(w) \/ name \notin c.branches
    THEN Throw(c1)
    ELSE [c1 EXCEPT !.head[w] = ""]

\* git keeps a worktree with uncommitted changes unless --force is given
RemovalRefused(path, force) == path \in dirty /\ ~force

\* git worktree remove <path> [--force], run in dir
GitWorktreeRemove(c, dir, path, force) ==
    LET c1 == Call(c, "worktree-remove") IN
    IF ~InRepo(c.head, dir) \/ path \notin DOMAIN c.head \/ path = primary
       \/ RemovalRefused(path, force)
    THEN Throw(c1)
    ELSE [c1 EXCEPT !.head = [p \in DOMAIN c.head \ {path} |-> c.head[p]]]

----------------------------------------------------------------------------
(* git-worktree-utils.ts                                                   *)

\* mutant: the worktrees are listed before the repository is validated
validateGitRepository_AfterList(c, dir) ==
    LET c1 == Call(Call(c, "worktree-list"), "rev-parse") IN
    IF InRepo(c.head, dir) THEN c1 ELSE Throw(c1)

validateGitRepository(c, dir) ==
    LET c1 == Call(c, "rev-parse") IN
    IF InRepo(c.head, dir) THEN c1 ELSE Throw(c1)

commonMainBranches == <<"main", "develop", "dev", "master">>

\* the loop over commonMainBranches: local first, then remote-tracking;
\* returns "" when no name is found
RECURSIVE TryCommonBranches(_, _)
TryCommonBranches(c, i) ==
    IF i > Len(commonMainBranches) THEN Ret(c, "")
    ELSE LET branchName == commonMainBranches[i]
             c1 == Call(c, "show-ref") IN
         IF "showref" \notin c.flt /\ branchName \in c.branches
         THEN Ret(c1, branchName)
         ELSE LET c2 == Call(c1, "show-ref") IN
              IF "showref" \notin c.flt /\ branchName \in remotes
              THEN Ret(c2, branchName)
              ELSE TryCommonBranches(c2, i + 1)

\* remoteHead.match(/refs\/remotes\/origin\/(.+)/): the captured name, "" if
\* there is no match
MatchRemoteHead(text) ==
    LET prefix == "refs/remotes/origin/" IN
    IF StartsWith(text, prefix) /\ Len(text) > Len(prefix)
    THEN SubSeq(text, Len(prefix) + 1, Len(text))
    ELSE ""

\* .replace(/^\*?\s*/, ""): one leading star, then the blanks after it
StripMarker(line) ==
    TrimStart(IF StartsWith(line, "*") THEN SubSeq(line, 2, Len(line)) ELSE line)

\* branchOutput.stdout.trim().split("\n")[0]
FirstLine(lines) == IF Len(lines) = 0 THEN "" ELSE TrimStart(lines[1])

\* mutant: a failing branch listing is not caught
BranchListFallback_Uncaught(c, firstBranch) ==
    IF "branch" \in c.flt THEN Throw(c)
    ELSE Ret(c, IF firstBranch # "" THEN firstBranch ELSE "main")

\* the last two strategies: the first line of git branch --list if the
\* listing answers and is not empty, else the literal main
BranchListFallback(c, firstBranch) ==
    IF "branch" \notin c.flt /\ firstBranch # ""
    THEN Ret(c, firstBranch)
    ELSE Ret(c, "main")

discoverMainBranch(c, dir) ==
    LET c1 == Call(c, "symbolic-ref")
        remoteHeadOutput ==
            IF remoteHead = "" \/ "symref" \in c.flt THEN ""
            ELSE "refs/remotes/origin/" \o remoteHead
        defaultBranch == MatchRemoteHead(remoteHeadOutput)
    IN
    IF defaultBranch # "" THEN Ret(c1, defaultBranch)
    ELSE LET c2 == TryCommonBranches(c1, 1) IN
         IF c2.ret # "" THEN c2
         ELSE LET c3 == Call(c2, "branch-list")
                  firstBranch ==
                      StripMarker(FirstLine(GitBranchList(c.head, c.branches, dir)))
              IN  BranchListFallback(c3, firstBranch)

getWorktreePaths(c) ==
    LET c1 == Call(c, "worktree-list") IN
    IF "list" \in c.flt THEN Throw(c1)
    ELSE LET lines == GitWorktreeList(c.head)
             cols  == [i \in 1..Len(lines) |->
                         FirstColumn(IF i = 1 THEN TrimStart(lines[i]) ELSE lines[i])]
         IN  Ret(c1, SelectSeq(cols, LAMBDA path : Len(path) > 0))

\* mutant: a later path of the same length replaces the shortest so far
Shorter_OrEqual(current, shortest) == Len(current) <= Len(shortest)

\* current.length < shortest.length
Shorter(current, shortest) == Len(current) < Len(shortest)

\* worktreePaths.reduce((shortest, current) =>
\*     current.length < shortest.length ? current : shortest)
RECURSIVE ReduceShortest(_, _, _)
ReduceShortest(worktreePaths, shortest, i) ==
    IF i > Len(worktreePaths) THEN shortest
    ELSE ReduceShortest(worktreePaths,
                        IF Shorter(worktreePaths[i], shortest)
                        THEN worktreePaths[i] ELSE shortest,
                        i + 1)

\* mutant: the first listed path is the base
determineWorktreeBase_First(worktreePaths) == worktreePaths[1]

determineWorktreeBase(worktreePaths) ==
    LET found == {i \in 1..Len(worktreePaths) : EndsWith(worktreePaths[i], ".git")} IN
    IF found # {}
    THEN LET bareGitPath == worktreePaths[CHOOSE i \in found : \A j \in found : i <= j]
         IN  \* .replace(/\/\.git$/, "")
             IF EndsWith(bareGitPath, "/.git")
             THEN SubSeq(bareGitPath, 1, Len(bareGitPath) - 5)
             ELSE bareGitPath
    ELSE ReduceShortest(worktreePaths, worktreePaths[1], 2)

\* mutant: a remote-tracking branch counts as an existing branch
branchExistsLocally_OrRemote(c, branchName) ==
    Ret(Call(c, "show-ref"), branchName \in c.branches \cup remotes)

\* mutant: the existence check always answers no
branchExistsLocally_AlwaysFalse(c, branchName) ==
    Ret(Call(c, "show-ref"), FALSE)

branchExistsLocally(c, branchName) ==
    Ret(Call(c, "show-ref"), branchName \in c.branches)

\* mutant: an empty branch name is taken for a failure
getCurrentBranch_EmptyIsError(c, path) ==
    LET c1 == Call(c, "show-current") IN
    IF "show" \in c.flt \/ ~InRepo(c.head, path) THEN Throw(c1)
    ELSE IF c.head[WorktreeOf(c.head, path)] = "" THEN Throw(c1)
    ELSE Ret(c1, c.head[WorktreeOf(c.head, path)])

getCurrentBranch(c, path) ==
    LET c1 == Call(c, "show-current") IN
    IF "show" \in c.flt \/ ~InRepo(c.head, path) THEN Throw(c1)
    ELSE Ret(c1, c.head[WorktreeOf(c.head, path)])

InSeq(x, seq) == \E i \in 1..Len(seq) : seq[i] = x

\* mutant: every listed path counts as a worktree, the base included
isCurrentDirectoryWorktree_AnyListed(c, currentDir) ==
    LET c1 == getWorktreePaths(c) IN
    IF ~c1.ok THEN Ret([c1 EXCEPT !.ok = TRUE], FALSE)
    ELSE Ret(c1, InSeq(currentDir, c1.ret))

isCurrentDirectoryWorktree(c, currentDir) ==
    LET c1 == getWorktreePaths(c) IN
    IF ~c1.ok THEN Ret([c1 EXCEPT !.ok = TRUE], FALSE)
    ELSE LET worktreeBase == determineWorktreeBase(c1.ret) IN
         Ret(c1, currentDir # worktreeBase /\ InSeq(currentDir, c1.ret))

switchToDirectory(c, targetPath) == [c EXCEPT !.out = Append(@, targetPath)]

----------------------------------------------------------------------------
(* git-worktree-add.ts                                                     *)

\* mutant: the path is not handed to the shell wrapper
switchToExistingWorktree_NoEmit(c, targetPath) ==
    getCurrentBranch(c, targetPath)

switchToExistingWorktree(c, targetPath) ==
    LET c1 == getCurrentBranch(c, targetPath) IN
    IF ~c1.ok THEN c1 ELSE switchToDirectory(c1, targetPath)

\* mutant: a refusal of git worktree add is not passed on
createWorktreeWithExistingBranch_IgnoreRefusal(c, targetPath, branchName) ==
    LET c1 == [GitWorktreeAdd(c, targetPath, branchName) EXCEPT !.ok = TRUE]
        c2 == getCurrentBranch(c1, targetPath) IN
    IF ~c2.ok THEN c1 ELSE switchToDirectory(c2, targetPath)

createWorktreeWithExistingBranch(c, targetPath, branchName) ==
    LET c1 == GitWorktreeAdd(c, targetPath, branchName) IN
    IF ~c1.ok THEN c1
    ELSE LET c2 == getCurrentBranch(c1, targetPath) IN
         IF ~c2.ok THEN c2 ELSE switchToDirectory(c2, targetPath)

\* mutant: the path is emitted before the branch is read back
createWorktreeWithNewBranch_EmitFirst(c, targetPath, branchName, mainBranch) ==
    LET c1 == GitWorktreeAddNewBranch(c, targetPath, mainBranch, branchName) IN
    IF ~c1.ok THEN c1
    ELSE getCurrentBranch(switchToDirectory(c1, targetPath), targetPath)

createWorktreeWithNewBranch(c, targetPath, branchName, mainBranch) ==
    LET c1 == GitWorktreeAddNewBranch(c, targetPath, mainBranch, branchName) IN
    IF ~c1.ok THEN c1
    ELSE LET c2 == getCurrentBranch(c1, targetPath) IN
         IF ~c2.ok THEN c2 ELSE switchToDirectory(c2, targetPath)

\* what a run leaves behind: the context, the exit code, the transition it
\* ended in and the values it computed on the way
Outcome(c, exit, kind, base, target, mainBranch) ==
    [head |-> c.head, branches |-> c.branches, start |-> c.start,
     out |-> c.out, calls |-> c.calls,
     exit |-> exit, kind |-> kind, base |-> base, target |-> target,
     mainBranch |-> mainBranch]

\* mutant: every failure of the script is reported as success
ExitOf_AlwaysZero(c) == 0

ExitOf(c) == IF c.ok THEN 0 ELSE 1

\* mutant: the repository is validated before the arguments are looked at
UsageError_AfterValidate(c) ==
    Outcome(Call(c, "rev-parse"), 1, "Usage", "", "", "")

\* args.length === 0: the usage line and exit 1
UsageError(c) == Outcome(c, 1, "Usage", "", "", "")

\* main of git-worktree-add.ts, run in directory dir with arguments args
AddMain(c, args, dir) ==
    IF Len(args) = 0 THEN UsageError(c)
    ELSE
    LET branchName == args[1]
        c1 == validateGitRepository(c, dir) IN
    IF ~c1.ok THEN Outcome(c1, 1, "NotARepository", "", "", "")
    ELSE
    LET c2 == discoverMainBranch(c1, dir)
        mainBranch == c2.ret
        c3 == getWorktreePaths(c2) IN
    IF ~c3.ok THEN Outcome(c3, 1, "ListFailed", "", "", mainBranch)
    ELSE
    LET worktreePaths == c3.ret
        worktreeBase  == determineWorktreeBase(worktreePaths)
        targetPath    == worktreeBase \o "/" \o branchName IN
    IF InSeq(targetPath, worktreePaths)
    THEN LET c4 == switchToExistingWorktree(c3, targetPath) IN
         Outcome(c4, ExitOf(c4), "Switch", worktreeBase, targetPath, mainBranch)
    ELSE
    LET c4 == branchExistsLocally(c3, branchName) IN
    IF c4.ret
    THEN LET c5 == createWorktreeWithExistingBranch(c4, targetPath, branchName) IN
         Outcome(c5, ExitOf(c5), "CreateFromExisting", worktreeBase, targetPath,
                 mainBranch)
    ELSE LET c5 == createWorktreeWithNewBranch(c4, targetPath, branchName,
                                               mainBranch) IN
         Outcome(c5, ExitOf(c5), "CreateWithNewBranch", worktreeBase, targetPath,
                 mainBranch)

----------------------------------------------------------------------------
(* git-worktree-remove.ts                                                  *)

LowerChar(ch) ==
    CASE ch = "Y" -> "y" [] ch = "E" -> "e" [] ch = "S" -> "s"
      [] ch = "N" -> "n" [] ch = "O" -> "o" [] OTHER -> ch

RECURSIVE ToLowerCase(_)
ToLowerCase(s) ==
    IF Len(s) = 0 THEN ""
    ELSE LowerChar(Char(s, 1)) \o ToLowerCase(SubSeq(s, 2, Len(s)))

\* mutant: everything but an explicit no confirms
askForConfirmation_DefaultYes(c, answer) ==
    Ret(Call(c, "confirm"), answer # Interrupted /\ ToLowerCase(answer) # "n")

\* mutant: the answer is compared as typed
askForConfirmation_CaseSensitive(c, answer) ==
    Ret(Call(c, "confirm"), answer = "y" \/ answer = "yes")

\* question() throws when the prompt is interrupted
askForConfirmation(c, answer) ==
    LET c1 == Call(c, "confirm") IN
    IF answer = Interrupted THEN Ret(c1, FALSE)
    ELSE Ret(c1, ToLowerCase(answer) = "y" \/ ToLowerCase(answer) = "yes")

\* mutant: the base is left on the branch it has
CheckoutMainBranch_Skip(c, worktreeBase, mainBranch) == c

\* mutant: a refused checkout is not retried in detached state
CheckoutMainBranch_NoFallback(c, worktreeBase, mainBranch) ==
    GitCheckout(c, worktreeBase, mainBranch)

\* the checkout of the main branch with its fallback (lines 467-473)
CheckoutMainBranch(c, worktreeBase, mainBranch) ==
    LET c1 == GitCheckout(c, worktreeBase, mainBranch) IN
    IF c1.ok THEN c1
    ELSE GitCheckoutDetach([c1 EXCEPT !.ok = TRUE], worktreeBase, mainBranch)

\* mutant: the branch of the worktree is deleted with it
RemoveWorktree_DeleteBranch(c, worktreeBase, currentDir) ==
    LET c1 == GitWorktreeRemove(c, worktreeBase, currentDir, TRUE) IN
    IF c1.ok THEN [c1 EXCEPT !.branches = @ \ {c.head[currentDir]}] ELSE c1

\* mutant: the other linked worktrees are unregistered with it
RemoveWorktree_Prune(c, worktreeBase, currentDir) ==
    LET c1 == GitWorktreeRemove(c, worktreeBase, currentDir, TRUE) IN
    IF c1.ok THEN [c1 EXCEPT !.head = [p \in {primary} |-> c1.head[p]]] ELSE c1

\* mutant: the removal is not forced
RemoveWorktree_NoForce(c, worktreeBase, currentDir) ==
    GitWorktreeRemove(c, worktreeBase, currentDir, FALSE)

\* the removal itself (lines 475-477)
RemoveWorktree(c, worktreeBase, currentDir) ==
    GitWorktreeRemove(c, worktreeBase, currentDir, TRUE)

\* mutant: the base is emitted in interactive mode too
EmitBaseIfForced_Always(c, forceRemove, worktreeBase) ==
    switchToDirectory(c, worktreeBase)

\* the path for the shell wrapper, in force mode only (lines 481-484)
EmitBaseIfForced(c, forceRemove, worktreeBase) ==
    IF forceRemove THEN switchToDirectory(c, worktreeBase) ELSE c

\* the courtesy report of the branch at the base; its failure is swallowed
ReportBaseBranch(c, worktreeBase) ==
    LET c1 == getCurrentBranch(c, worktreeBase) IN [c1 EXCEPT !.ok = TRUE]

\* main of git-worktree-remove.ts is written as its successive steps; each
\* step takes the context c left by the call before it.

\* after git worktree remove (lines 477-500)
RemoveAfterRemoval(c, forceRemove, worktreeBase, currentDir, mainBranch) ==
    IF ~c.ok THEN Outcome(c, 1, "Failed", worktreeBase, currentDir, mainBranch)
    ELSE Outcome(ReportBaseBranch(EmitBaseIfForced(c, forceRemove, worktreeBase),
                                  worktreeBase),
                 0, "Removed", worktreeBase, currentDir, mainBranch)

\* mutant: the removal is issued also when both checkouts failed
RemoveAfterCheckout_Anyway(c, forceRemove, worktreeBase, currentDir, mainBranch) ==
    RemoveAfterRemoval(RemoveWorktree([c EXCEPT !.ok = TRUE], worktreeBase,
                                      currentDir),
                       forceRemove, worktreeBase, currentDir, mainBranch)

\* after the checkout at the base (lines 465-477)
RemoveAfterCheckout(c, forceRemove, worktreeBase, currentDir, mainBranch) ==
    IF ~c.ok THEN Outcome(c, 1, "Failed", worktreeBase, currentDir, mainBranch)
    ELSE RemoveAfterRemoval(RemoveWorktree(c, worktreeBase, currentDir),
                            forceRemove, worktreeBase, currentDir, mainBranch)

\* mutant: the checkout is run before the working directory is changed
RemoveAfterDiscover_CheckoutFirst(c, forceRemove, worktreeBase, currentDir) ==
    RemoveAfterCheckout(Call(CheckoutMainBranch(c, currentDir, c.ret), "chdir"),
                        forceRemove, worktreeBase, currentDir, c.ret)

\* after discoverMainBranch, whose result is c.ret (lines 459-473)
RemoveAfterDiscover(c, forceRemove, worktreeBase, currentDir) ==
    RemoveAfterCheckout(CheckoutMainBranch(Call(c, "chdir"), worktreeBase, c.ret),
                        forceRemove, worktreeBase, currentDir, c.ret)

\* after getWorktreePaths, whose result is c.ret (lines 457-459)
RemoveAfterList(c, forceRemove, currentDir) ==
    IF ~c.ok THEN Outcome(c, 1, "Failed", "", "", "")
    ELSE RemoveAfterDiscover(discoverMainBranch(c, currentDir), forceRemove,
                             determineWorktreeBase(c.ret), currentDir)

\* after the confirmation, c.ret = confirmed (lines 451-457)
RemoveAfterConfirm(c, forceRemove, currentDir) ==
    IF ~c.ret THEN Outcome(c, 0, "Cancelled", "", "", "")
    ELSE RemoveAfterList(getWorktreePaths(c), forceRemove, currentDir)

\* after getCurrentBranch (lines 436-449)
RemoveAfterBranch(c, forceRemove, currentDir, answer) ==
    IF ~c.ok THEN Outcome(c, 1, "Failed", "", "", "")
    ELSE RemoveAfterConfirm(IF forceRemove THEN Ret(c, TRUE)
                            ELSE askForConfirmation(c, answer),
                            forceRemove, currentDir)

\* after isCurrentDirectoryWorktree, c.ret = isWorktree (lines 425-436)
RemoveAfterLocate(c, forceRemove, currentDir, answer) ==
    IF ~c.ret THEN Outcome(c, 1, "NotInWorktree", "", "", "")
    ELSE RemoveAfterBranch(getCurrentBranch(c, currentDir), forceRemove,
                           currentDir, answer)

\* after validateGitRepository (lines 422-425)
RemoveAfterValidate(c, forceRemove, currentDir, answer) ==
    IF ~c.ok THEN Outcome(c, 1, "NotARepository", "", "", "")
    ELSE RemoveAfterLocate(isCurrentDirectoryWorktree(c, currentDir), forceRemove,
                           currentDir, answer)

\* main of git-worktree-remove.ts, run in directory dir with arguments args;
\* answer is what the user types if the prompt is shown
RemoveMain(c, args, dir, answer) ==
    RemoveAfterValidate(validateGitRepository(c, dir),
                        InSeq("--force", args) \/ InSeq("-f", args), dir, answer)

----------------------------------------------------------------------------
(* The state machine: a repository, and script runs on it.                 *)

NoRun == [cmd |-> "none", args |-> <<>>, cwd |-> "", answer |-> "", flt |-> {},
          preHead |-> <<>>, preBranches |-> {}, preDirty |-> {},
          out |-> <<>>, calls |-> <<>>,
          exit |-> 0, kind |-> "", base |-> "", target |-> "", mainBranch |-> ""]

RemoteConfigs == {[r |-> {}, h |-> ""], [r |-> {"main"}, h |-> ""],
                  [r |-> {"main"}, h |-> "main"]}

InitBranchSets == {{"dev"}, {"main", "dev"}, {"dev", "f"}}

\* the repositories a run may find: a standard or a bare layout, the primary
\* entry on a branch or detached, possibly one worktree made outside the base
Init ==
    /\ bare \in BOOLEAN
    /\ primary = IF bare THEN BarePrimary ELSE StdPrimary
    /\ \E rc \in RemoteConfigs : remotes = rc.r /\ remoteHead = rc.h
    /\ branches \in InitBranchSets
    /\ dirs \in {{}, {primary \o "/f"}}
    /\ dirs # {} => remotes = {}
    /\ \E hp \in branches \cap {"dev", "main"} :
       \E ext \in (branches \ {hp}) \cup {"", "absent"} :
          /\ head = [p \in {primary} \cup (IF ext = "absent" THEN {} ELSE {External})
                       |-> IF p = primary THEN hp ELSE ext]
    /\ start = <<>>
    /\ dirty = {}
    /\ procs = <<>>
    /\ run = NoRun

\* the directories a script is started in
Cwds == DOMAIN head \cup {Outside, primary \o "/s"}

\* the inputs of a run: a command is made to fail only in runs started in a
\* registered worktree
Inputs(dir, flt) == flt # {} => dir \in DOMAIN head

Record(cmd, args, dir, answer, flt, o) ==
    [cmd |-> cmd, args |-> args, cwd |-> dir, answer |-> answer, flt |-> flt,
     preHead |-> head, preBranches |-> branches, preDirty |-> dirty,
     out |-> o.out, calls |-> o.calls,
     exit |-> o.exit, kind |-> o.kind, base |-> o.base, target |-> o.target,
     mainBranch |-> o.mainBranch]

Apply(cmd, args, dir, answer, flt, o) ==
    /\ Cardinality(DOMAIN o.head) <= MaxLinked + 1
    /\ head' = o.head
    /\ branches' = o.branches
    /\ start' = o.start
    /\ run' = Record(cmd, args, dir, answer, flt, o)
    /\ dirty' = dirty \cap DOMAIN o.head
    /\ UNCHANGED <<bare, primary, remotes, remoteHead, dirs, procs>>

\* one run of git-worktree-add.ts
Add ==
    /\ run.cmd = "none"
    /\ \E args \in {<<>>} \cup {<<b>> : b \in AddNames}, dir \in Cwds,
          flt \in FaultSets :
        /\ Inputs(dir, flt)
        /\ Apply("add", args, dir, "", flt,
                 AddMain(Ctx(head, branches, start, flt), args, dir))

\* one run of git-worktree-remove.ts
Remove ==
    /\ run.cmd = "none"
    /\ \E args \in {<<>>, <<"--force">>, <<"-f">>}, dir \in Cwds,
          answer \in Answers, flt \in FaultSets :
        /\ Inputs(dir, flt)
        /\ LET o == RemoveMain(Ctx(head, branches, start, flt), args, dir, answer)
           IN  \* the answer is an input only of the runs that prompt
               /\ ~InSeq("confirm", o.calls) => answer = "n"
               /\ Apply("remove", args, dir, answer, flt, o)

\* the process has exited and the shell prompts again
Return ==
    /\ run.cmd # "none"
    /\ run' = NoRun
    /\ UNCHANGED <<bare, primary, head, branches, start, remotes, remoteHead, dirs,
                   dirty, procs>>

Next == Add \/ Remove \/ Return

Spec == Init /\ [][Next]_vars

----------------------------------------------------------------------------
(* Vocabulary of the properties.  These are stated on the repository       *)
(* before the run (run.preHead, run.preBranches) and after it (head,       *)
(* branches), independently of the values the run computed for itself.     *)

IsAdd(b)  == run.cmd = "add" /\ run.args = <<b>>
IsRemove  == run.cmd = "remove"
Forced    == InSeq("--force", run.args) \/ InSeq("-f", run.args)
Asked     == InSeq("confirm", run.calls)

\* the run was started inside the repository and no command failed for a
\* reason outside the repository state
Started   == InRepo(run.preHead, run.cwd)
NoFault   == run.flt = {}

\* the paths git lists before the run, and the base they give
ListedBefore == <<primary>> \o SortStrings(DOMAIN run.preHead \ {primary})
BaseBefore   == determineWorktreeBase(ListedBefore)
TargetOf(b)  == BaseBefore \o "/" \o b

Unchanged == head = run.preHead /\ branches = run.preBranches
NoMutation == \A i \in 1..Len(run.calls) : run.calls[i] \notin Mutations

\* the branch discoverMainBranch gives in the repository before the run
MainBefore ==
    discoverMainBranch(Ctx(run.preHead, run.preBranches, <<>>, {}), run.cwd).ret

\* head extended by one worktree
WithWorktree(h, path, b) ==
    [p \in DOMAIN h \cup {path} |-> IF p = path THEN b ELSE h[p]]

----------------------------------------------------------------------------
(* Properties of add.                                                      *)

\* C1: for every branch name b that exists neither locally nor as a
\* remote-tracking branch and has no worktree registered at base/b, add(b)
\* creates the local branch b starting at the branch discoverMainBranch
\* returns, registers a worktree at base/b attached to b, and exits 0.
\* (Read in the claim's favour: the base is the primary entry, nothing at all
\* exists at base/b, and the run is started inside the repository with every
\* backend command answering.)
C1_AddCreatesNewBranch ==
    \A b \in AddNames :
        (/\ IsAdd(b) /\ Started /\ NoFault /\ BaseBefore = primary
         /\ b \notin run.preBranches /\ b \notin remotes
         /\ TargetOf(b) \notin DOMAIN run.preHead /\ TargetOf(b) \notin dirs)
        => /\ run.exit = 0
           /\ branches = run.preBranches \cup {b}
           /\ b \in DOMAIN start /\ start[b] = MainBefore
           /\ head = WithWorktree(run.preHead, TargetOf(b), b)

\* C2: when add(b) has just succeeded, a second add(b) with nothing else
\* changed takes the Switch transition: worktrees and branches stay as they
\* are, the same path is emitted as by the first call, and it exits 0.
C2_SecondAddSwitches ==
    \A b \in AddNames :
        (IsAdd(b) /\ run.exit = 0)
        => \A dir \in DOMAIN head :
              LET again == AddMain(Ctx(head, branches, start, {}), <<b>>, dir)
              IN  /\ again.kind = "Switch"
                  /\ again.exit = 0
                  /\ again.out = run.out
                  /\ again.head = head /\ again.branches = branches

\* b is checked out in a worktree before the run
AttachedBefore(b) == CheckedOutElsewhere(run.preHead, b, "")

\* the case C3 is about: a local branch, checked out nowhere, no worktree
\* registered at base/b
ExistingBranchCase(b) ==
    /\ IsAdd(b) /\ Started /\ NoFault
    /\ b \in run.preBranches /\ ~AttachedBefore(b)
    /\ TargetOf(b) \notin DOMAIN run.preHead

CreatedFromExisting(b) ==
    /\ run.exit = 0
    /\ branches = run.preBranches
    /\ head = WithWorktree(run.preHead, TargetOf(b), b)

\* C3 as claimed: for every local branch b attached to no worktree and with
\* no worktree registered at base/b, add(b) registers a worktree at base/b
\* attached to b, creates no branch, and exits 0.
C3_Original ==
    \A b \in AddNames : ExistingBranchCase(b) => CreatedFromExisting(b)

\* C3 as amended: the same, provided base/b is not an existing directory
\* (git refuses a path that exists and is not empty).
C3_AddExistingBranch ==
    \A b \in AddNames :
        (ExistingBranchCase(b) /\ TargetOf(b) \notin dirs) => CreatedFromExisting(b)

C3_Witness ==
    \E b \in AddNames :
        /\ ExistingBranchCase(b) /\ TargetOf(b) \notin dirs
        /\ run.kind = "CreateFromExisting" /\ run.exit = 0
        /\ TargetOf(b) \in DOMAIN head

\* C4: when base/b is already in the worktree list, add(b) changes nothing
\* in the repository and attempts no create; it emits base/b and exits 0
\* (the emission and the exit code provided the branch read-back answers).
C4_SwitchNoMutation ==
    \A b \in AddNames :
        (IsAdd(b) /\ Started /\ "list" \notin run.flt
         /\ TargetOf(b) \in DOMAIN run.preHead)
        => /\ Unchanged
           /\ NoMutation
           /\ run.kind = "Switch"
           /\ "show" \notin run.flt => (run.exit = 0 /\ run.out = <<TargetOf(b)>>)

C4_Witness ==
    \E b \in AddNames :
        /\ IsAdd(b) /\ Started /\ NoFault
        /\ TargetOf(b) \in DOMAIN run.preHead
        /\ run.exit = 0 /\ run.out = <<TargetOf(b)>>

----------------------------------------------------------------------------
(* Properties of remove.                                                   *)

\* the run was started in a registered worktree that is not the base
InNonBaseWorktree == run.cwd \in DOMAIN run.preHead /\ run.cwd # BaseBefore

\* the run removed the worktree it was started in
Removed == IsRemove /\ run.exit = 0 /\ run.cwd \in DOMAIN run.preHead
           /\ run.cwd \notin DOMAIN head

\* C5: remove --force (or -f) started in a registered non-base worktree W
\* asks for no confirmation, unregisters W, emits the base computed before
\* the removal, and exits 0.  (Read in the claim's favour: W is a linked
\* worktree, not the primary entry of the list.)
C5_ForceRemoves ==
    (IsRemove /\ Forced /\ NoFault /\ InNonBaseWorktree /\ run.cwd # primary)
    => /\ ~Asked
       /\ run.cwd \notin DOMAIN head
       /\ run.out = <<BaseBefore>>
       /\ run.exit = 0

\* C6 as claimed: after a successful remove the set of local branches equals
\* the set before it.
C6_Original == Removed => branches = run.preBranches

\* C6 as amended: a successful remove deletes no branch: every branch that
\* existed before still exists, the branch of the removed worktree included
\* (the checkout at the base may add a local branch made from its
\* remote-tracking branch).
C6_RemoveKeepsBranches ==
    Removed => /\ run.preBranches \subseteq branches
               /\ run.preHead[run.cwd] # "" => run.preHead[run.cwd] \in branches

C6_Witness ==
    /\ Removed
    /\ run.preHead[run.cwd] # "" /\ run.preHead[run.cwd] \in branches
    /\ run.preHead[run.cwd] \in DOMAIN start

\* C7: remove started in the primary checkout directory, or in the computed
\* base, fails with NotInWorktree (exit 1) and changes nothing: no checkout
\* is attempted and no worktree is removed.
C7_RemoveFromBaseRefused ==
    (IsRemove /\ Started /\ NoFault
     /\ (run.cwd = primary \/ run.cwd = BaseBefore))
    => /\ run.exit = 1 /\ run.kind = "NotInWorktree"
       /\ Unchanged /\ NoMutation

\* an answer that is not an affirmative token
Declined == run.answer = Interrupted
            \/ (ToLowerCase(run.answer) # "y" /\ ToLowerCase(run.answer) # "yes")

\* C8: remove without a force flag asks for confirmation before any backend
\* mutation; when the answer is a decline, the repository (the worktree, its
\* branch, the branch checked out at the base) is as before and the exit
\* code is 0.
C8_ConfirmBeforeMutation ==
    (IsRemove /\ ~Forced)
    => /\ \A i \in 1..Len(run.calls) :
            run.calls[i] \in Mutations
            => \E j \in 1..(i - 1) : run.calls[j] = "confirm"
       /\ (Asked /\ Declined) => (Unchanged /\ NoMutation /\ run.exit = 0)

C8_Witness ==
    /\ IsRemove /\ ~Forced /\ Asked /\ Declined
    /\ InNonBaseWorktree /\ Unchanged /\ run.exit = 0

\* C9 as claimed: every successful remove emits the base path exactly once,
\* both when confirmed interactively and in force mode.
C9_Original == Removed => run.out = <<BaseBefore>>

\* C9 as amended: a successful remove in force mode emits the base path
\* exactly once; a successful remove confirmed interactively emits no
\* WORKTREE_PATH line.
C9_RemoveEmitsBaseWhenForced ==
    Removed => run.out = (IF Forced THEN <<BaseBefore>> ELSE <<>>)

C9_Witness == Removed /\ Forced /\ run.out = <<BaseBefore>>

\* C10: an add that exits 0 emits exactly one WORKTREE_PATH line and its path
\* is base/branchName; an add that exits 1, and a remove that is cancelled or
\* fails, emit none.
C10_OneLineOnSuccess ==
    /\ \A b \in AddNames :
          IsAdd(b) => run.out = (IF run.exit = 0 THEN <<TargetOf(b)>> ELSE <<>>)
    /\ (run.cmd = "add" /\ run.args = <<>>) => (run.exit = 1 /\ run.out = <<>>)
    /\ (IsRemove /\ (run.exit = 1 \/ ~Removed)) => run.out = <<>>

C10_Witness ==
    \E b \in AddNames :
        /\ IsAdd(b) /\ run.exit = 0 /\ run.kind = "CreateWithNewBranch"
        /\ run.out = <<TargetOf(b)>>

----------------------------------------------------------------------------
(* Exit codes and the usage error.                                         *)

\* the worktree the run was started in is no longer registered
WorktreeGone ==
    IsRemove /\ run.cwd \in DOMAIN run.preHead /\ run.cwd \notin DOMAIN head

\* a worktree is registered at base/b after the run
TargetRegistered(b) == TargetOf(b) \in DOMAIN head

\* C11: the exit code of add and of remove is 0 or 1; it is 0 exactly when
\* the operation succeeded (add: a worktree is registered at base/b; remove:
\* the worktree is gone) or the user declined, and 1 for a run outside a
\* repository, a run of remove outside a removable worktree, a refusal or a
\* failure of the backend, and a usage error.
C11_ExitCodes ==
    /\ run.exit \in {0, 1}
    /\ \A b \in AddNames :
          IsAdd(b) => /\ run.exit = 0 => (Started /\ TargetRegistered(b))
                      /\ (Started /\ NoFault /\ TargetRegistered(b)) => run.exit = 0
    /\ IsRemove => /\ run.exit = 0 => (WorktreeGone \/ (Asked /\ Declined /\ Unchanged))
                   /\ (WorktreeGone \/ (Asked /\ Declined)) => run.exit = 0
                   /\ (run.cwd \notin DOMAIN run.preHead \/ run.cwd = BaseBefore)
                         => run.exit = 1
    /\ (run.cmd # "none" /\ (~Started \/ ~NoFault)) => run.exit = 1
    /\ (run.cmd = "add" /\ run.args = <<>>) => run.exit = 1

C11_Witness ==
    \E b \in AddNames :
        /\ IsAdd(b) /\ Started /\ NoFault
        /\ InSeq("worktree-add", run.calls) /\ ~TargetRegistered(b)
        /\ run.exit = 1

\* C12: add started with no argument exits 1 without any backend query or
\* mutation; the repository is not even validated.
C12_UsageError ==
    (run.cmd = "add" /\ run.args = <<>>)
    => /\ run.exit = 1
       /\ run.calls = <<>>
       /\ run.out = <<>>
       /\ Unchanged

C12_Witness ==
    /\ run.cmd = "add" /\ run.args = <<>> /\ run.cwd = Outside
    /\ run.exit = 1 /\ run.calls = <<>>

----------------------------------------------------------------------------
(* discoverMainBranch on its own, over more repositories than the scripts  *)
(* are run on above: any set of local branches, HEAD on a branch, detached *)
(* or unborn, a second worktree, and any combination of failing queries.   *)

DiscoverBranches == {"main", "develop", "dev", "master", "a", "f"}
DiscoverRemotes  == {{}, {"main"}, {"develop"}, {"master"}}

InitDiscover ==
    /\ bare = FALSE
    /\ primary = StdPrimary
    /\ branches \in SUBSET DiscoverBranches
    /\ remotes \in DiscoverRemotes
    /\ remoteHead \in {"", "master"}
    /\ \E hp \in branches \cup {"", "main"} :
       \E ext \in (branches \ {hp}) \cup {"absent"} :
          head = [p \in {primary} \cup (IF ext = "absent" THEN {} ELSE {External})
                    |-> IF p = primary THEN hp ELSE ext]
    /\ dirs = {}
    /\ start = <<>>
    /\ dirty = {}
    /\ procs = <<>>
    /\ run = NoRun

\* one call of discoverMainBranch in a worktree of the repository
Discover ==
    /\ run.cmd = "none"
    /\ \E dir \in DOMAIN head, flt \in SUBSET DiscoverFaults :
          LET c == discoverMainBranch(Ctx(head, branches, start, flt), dir)
          IN  Apply("discoverMainBranch", <<>>, dir, "", flt,
                    Outcome(c, ExitOf(c), "Returned", "", "", c.ret))

NextDiscover == Discover \/ Return

SpecDiscover == InitDiscover /\ [][NextDiscover]_vars

IsDiscover == run.cmd = "discoverMainBranch"

\* HEAD of the worktree the call is made in is detached
DetachedHere == run.preHead[WorktreeOf(run.preHead, run.cwd)] = ""

\* no signal at all: no remote HEAD, no conventional name, no local branch
NoSignal ==
    /\ remoteHead = "" /\ remotes = {} /\ run.preBranches = {}

ConventionalHits ==
    {i \in 1..Len(commonMainBranches) :
        commonMainBranches[i] \in run.preBranches \cup remotes}

FirstMatch ==
    IF remoteHead # "" THEN remoteHead
    ELSE IF ConventionalHits # {}
    THEN commonMainBranches[CHOOSE i \in ConventionalHits :
                               \A j \in ConventionalHits : i <= j]
    ELSE IF run.preBranches # {} THEN SortStrings(run.preBranches)[1]
    ELSE "main"

\* C14: discoverMainBranch is first-match-wins over: (1) the remote
\* default-branch pointer when set; (2) main, develop, dev, master in that
\* order, each checked locally then as remote-tracking before the next name;
\* (3) the first entry of the local branch listing; (4) the literal "main".
\* (Read in the claim's favour: no query fails, and a repository without
\* local branches is not on a detached HEAD.)
C14_DiscoverOrder ==
    (IsDiscover /\ run.flt = {} /\ (run.preBranches = {} => ~DetachedHere))
    => run.mainBranch = FirstMatch

----------------------------------------------------------------------------
(* determineWorktreeBase on its own, over lists of paths.                  *)

BasePaths == {"/a", "/b", "/rr", "/rr/f", "/b.git", "/c/.git"}

\* the lists git worktree list can give: not empty, no path twice
PathLists ==
    UNION {{l \in [1..n -> BasePaths] : \A i, j \in 1..n : l[i] = l[j] => i = j}
           : n \in 1..MaxPaths}

InitBase ==
    /\ bare = FALSE
    /\ primary = StdPrimary
    /\ branches = {"dev"}
    /\ remotes = {}
    /\ remoteHead = ""
    /\ head = [p \in {primary} |-> "dev"]
    /\ dirs = {}
    /\ start = <<>>
    /\ dirty = {}
    /\ procs = <<>>
    /\ \E l \in PathLists : run = [NoRun EXCEPT !.args = l]

\* one call of determineWorktreeBase on the list run.args
DetermineBase ==
    /\ run.cmd = "none"
    /\ run' = [run EXCEPT !.cmd = "determineWorktreeBase",
                          !.base = determineWorktreeBase(run.args)]
    /\ UNCHANGED <<bare, primary, head, branches, start, remotes, remoteHead, dirs,
                   dirty, procs>>

NextBase == DetermineBase

SpecBase == InitBase /\ [][NextBase]_vars

IsBase == run.cmd = "determineWorktreeBase"

\* the positions of the paths that end with .git
GitSuffixed == {i \in 1..Len(run.args) : EndsWith(run.args[i], ".git")}

\* a is b cut short at its end
ProperPrefix(a, b) == Len(a) < Len(b) /\ StartsWith(b, a)

\* C15: for every non-empty list in which some path ends with .git,
\* determineWorktreeBase returns such a path with its suffix removed (the
\* directory above the metadata directory); the result is never the matched
\* path itself.
C15_BareBase ==
    (IsBase /\ GitSuffixed # {})
    => \E i \in GitSuffixed : /\ ProperPrefix(run.base, run.args[i])
                              /\ run.base # run.args[i]

\* the positions of the paths of minimal length
Shortest == {i \in 1..Len(run.args) :
                \A j \in 1..Len(run.args) : Len(run.args[i]) <= Len(run.args[j])}

\* C16: for every non-empty list in which no path ends with .git,
\* determineWorktreeBase returns an element of minimal string length, and of
\* several such elements the one that occurs first in the list.
C16_ShortestFirst ==
    (IsBase /\ GitSuffixed = {})
    => run.base = run.args[CHOOSE i \in Shortest : \A j \in Shortest : i <= j]

C16_Witness ==
    /\ IsBase /\ GitSuffixed = {}
    /\ Cardinality(Shortest) = 2 /\ 1 \notin Shortest
    /\ run.base = run.args[2]

\* the lists that hold the same entries as run.args, in every order
Reordered ==
    LET n == Len(run.args) IN
    {[i \in 1..n |-> run.args[p[i]]] :
        p \in {q \in [1..n -> 1..n] : \A i, j \in 1..n : q[i] = q[j] => i = j}}

\* C17 as claimed: determineWorktreeBase is a function of the entry set: every
\* order of the same entries gives the same path.  (Read in the claim's
\* favour: the list holds one bare repository at most.)
C17_Original ==
    (IsBase /\ Cardinality(GitSuffixed) <= 1)
    => \A l \in Reordered : determineWorktreeBase(l) = run.base

\* the first match of .find and the first shortest path of .reduce do not
\* depend on the order: one path at most ends with .git, and if none does,
\* one path only has the minimal length
OrderFree ==
    \/ Cardinality(GitSuffixed) = 1
    \/ GitSuffixed = {} /\ Cardinality(Shortest) = 1

\* C17 as amended: the same list gives the same path, and every order of the
\* same entries gives the same path provided at most one path ends with .git
\* and, when none does, the shortest path is unique.
C17_OrderIndependent ==
    IsBase => /\ determineWorktreeBase(run.args) = run.base
              /\ OrderFree => \A l \in Reordered : determineWorktreeBase(l) = run.base

C17_Witness ==
    /\ IsBase /\ Len(run.args) = 3 /\ OrderFree /\ GitSuffixed = {}
    /\ run.base = run.args[3]
    /\ \A l \in Reordered : determineWorktreeBase(l) = run.base

----------------------------------------------------------------------------
(* The detached fallback and the forced removal.                           *)

\* the removal was asked for: force mode, or the prompt answered with yes
Confirmed == Forced \/ (Asked /\ ~Declined)

\* the base is a working tree, and the main branch exists and is checked out
\* in another worktree than the base: git refuses to check it out at the base
MainBusy ==
    /\ BaseBefore \in DOMAIN run.preHead /\ ~IsBareEntry(BaseBefore)
    /\ MainBefore \in run.preBranches
    /\ CheckedOutElsewhere(run.preHead, MainBefore, BaseBefore)

\* C18: during remove, when the checkout of the main branch at the base is
\* refused because the main branch is checked out in another worktree, remove
\* does not fail: it checks the main branch out detached at the base, then
\* removes the worktree and exits 0.  (The worktree to remove is a linked
\* one and every backend command answers.)
C18_DetachedFallback ==
    (IsRemove /\ NoFault /\ InNonBaseWorktree /\ run.cwd # primary
     /\ Confirmed /\ MainBusy)
    => /\ run.exit = 0
       /\ run.cwd \notin DOMAIN head
       /\ head[BaseBefore] = ""
       /\ \E i, j, k \in 1..Len(run.calls) :
             /\ i < j /\ j < k
             /\ run.calls[i] = "checkout"
             /\ run.calls[j] = "checkout-detach"
             /\ run.calls[k] = "worktree-remove"

C18_Witness ==
    /\ IsRemove /\ NoFault /\ InNonBaseWorktree /\ run.cwd # primary
    /\ Confirmed /\ MainBusy /\ ~EndsWith(BaseBefore, ".git")
    /\ run.preHead[BaseBefore] # "" /\ head[BaseBefore] = ""
    /\ run.cwd \notin DOMAIN head /\ run.exit = 0

\* the repositories of the runs with uncommitted changes: a standard layout
InitDirty ==
    /\ bare = FALSE
    /\ primary = StdPrimary
    /\ branches \in {{"dev"}, {"main", "dev"}}
    /\ remotes = {}
    /\ remoteHead = ""
    /\ head = [p \in {primary} |-> "dev"]
    /\ dirs = {}
    /\ start = <<>>
    /\ dirty = {}
    /\ procs = <<>>
    /\ run = NoRun

\* the user changes files in a linked worktree and does not commit them
\* (changes at the base are left out: the checkout there would carry them)
Edit ==
    /\ run.cmd = "none"
    /\ \E p \in DOMAIN head \ {primary, determineWorktreeBase(
                                  <<primary>> \o SortStrings(DOMAIN head \ {primary}))} :
          dirty' = dirty \cup {p}
    /\ UNCHANGED <<bare, primary, head, branches, start, remotes, remoteHead, dirs,
                   procs, run>>

NextDirty == Add \/ Remove \/ Return \/ Edit

SpecDirty == InitDirty /\ [][NextDirty]_vars

\* the worktree the run was started in had uncommitted changes
DirtyBefore == run.cwd \in run.preDirty

\* C19: once confirmation was given or force mode was requested, remove
\* deletes the worktree also when its working tree has uncommitted changes:
\* the run does not fail and the worktree does not stay registered.
C19_DirtyRemoved ==
    (IsRemove /\ NoFault /\ Confirmed /\ DirtyBefore)
    => /\ run.exit = 0
       /\ run.cwd \notin DOMAIN head
       /\ run.cwd \notin dirty

C19_Witness ==
    /\ IsRemove /\ NoFault /\ Confirmed /\ DirtyBefore /\ ~Forced
    /\ run.exit = 0 /\ run.cwd \notin DOMAIN head

----------------------------------------------------------------------------
(* Two add processes side by side.  Each backend command of main is one    *)
(* step; git worktree add -b is two, as git makes the branch before it     *)
(* looks at the path.  A process keeps what main keeps in its constants.   *)

Procs == {1, 2}

\* the branch name both processes are started with
RaceNames == {"f", "x.git"}

Proc(b) == [pc |-> "validate", branchName |-> b, mainBranch |-> "",
            targetPath |-> "", kind |-> "", exit |-> 0, out |-> <<>>,
            madeBranch |-> FALSE, madeWorktree |-> FALSE]

InitRace ==
    /\ bare = FALSE
    /\ primary = StdPrimary
    /\ branches \in {{"dev"}, {"dev", "f"}, {"dev", "x.git"}}
    /\ remotes = {}
    /\ remoteHead = ""
    /\ head = [p \in {primary} |-> "dev"]
    /\ dirs = {}
    /\ start = <<>>
    /\ dirty = {}
    /\ run = NoRun
    /\ \E b \in RaceNames : procs = [p \in Procs |-> Proc(b)]

\* the repository as process steps read it
Now == Ctx(head, branches, start, {})

\* a step of process p that leaves the repository as it is
Query(p, next) ==
    /\ procs' = [procs EXCEPT ![p] = next]
    /\ UNCHANGED <<bare, primary, head, branches, start, remotes, remoteHead, dirs,
                   dirty, run>>

\* a step of process p that ran a mutating git command, leaving context c
Mutate(p, c, next) ==
    /\ procs' = [procs EXCEPT ![p] = next]
    /\ head' = c.head
    /\ branches' = c.branches
    /\ start' = c.start
    /\ UNCHANGED <<bare, primary, remotes, remoteHead, dirs, dirty, run>>

\* the catch of main: exit 1
Failed(pr) == [pr EXCEPT !.pc = "done", !.exit = 1]

RaceValidate(p) ==
    /\ procs[p].pc = "validate"
    /\ LET c == validateGitRepository(Now, primary) IN
       Query(p, IF c.ok THEN [procs[p] EXCEPT !.pc = "discover"]
                ELSE Failed(procs[p]))

RaceDiscover(p) ==
    /\ procs[p].pc = "discover"
    /\ LET c == discoverMainBranch(Now, primary) IN
       Query(p, [procs[p] EXCEPT !.pc = "list", !.mainBranch = c.ret])

\* getWorktreePaths, determineWorktreeBase, targetPath and the test for an
\* existing worktree
RaceList(p) ==
    /\ procs[p].pc = "list"
    /\ LET c == getWorktreePaths(Now)
           targetPath == determineWorktreeBase(c.ret) \o "/" \o procs[p].branchName
       IN  Query(p, [procs[p] EXCEPT
                        !.targetPath = targetPath,
                        !.kind = IF InSeq(targetPath, c.ret) THEN "Switch" ELSE "",
                        !.pc = IF InSeq(targetPath, c.ret) THEN "show" ELSE "exists"])

RaceBranchExists(p) ==
    /\ procs[p].pc = "exists"
    /\ LET c == branchExistsLocally(Now, procs[p].branchName) IN
       Query(p, IF c.ret
                THEN [procs[p] EXCEPT !.pc = "add", !.kind = "CreateFromExisting"]
                ELSE [procs[p] EXCEPT !.pc = "branch", !.kind = "CreateWithNewBranch"])

\* git worktree add <targetPath> <branchName>
RaceAddExisting(p) ==
    /\ procs[p].pc = "add"
    /\ LET c == GitWorktreeAdd(Now, procs[p].targetPath, procs[p].branchName) IN
       Mutate(p, c, IF c.ok THEN [procs[p] EXCEPT !.pc = "show", !.madeWorktree = TRUE]
                    ELSE Failed(procs[p]))

\* git worktree add <targetPath> <mainBranch> -b <branchName>, first half:
\* the branch is made from the start point
RaceAddBranch(p) ==
    /\ procs[p].pc = "branch"
    /\ LET b == procs[p].branchName
           ok == b \notin branches /\ procs[p].mainBranch \in branches
           c == IF ok THEN NewBranch(Now, b, procs[p].mainBranch) ELSE Throw(Now)
       IN  Mutate(p, c, IF ok THEN [procs[p] EXCEPT !.pc = "worktree", !.madeBranch = TRUE]
                        ELSE Failed(procs[p]))

\* second half: the path is checked and the worktree is registered
RaceAddWorktree(p) ==
    /\ procs[p].pc = "worktree"
    /\ LET b == procs[p].branchName
           path == procs[p].targetPath
           ok == ~PathExists(head, path) /\ ~CheckedOutElsewhere(head, b, path)
           c == IF ok THEN NewWorktree(Now, path, b) ELSE Throw(Now)
       IN  Mutate(p, c, IF ok THEN [procs[p] EXCEPT !.pc = "show", !.madeWorktree = TRUE]
                        ELSE Failed(procs[p]))

\* getCurrentBranch(targetPath), then switchToDirectory(targetPath)
RaceShow(p) ==
    /\ procs[p].pc = "show"
    /\ LET c == switchToExistingWorktree(Now, procs[p].targetPath) IN
       Query(p, IF c.ok THEN [procs[p] EXCEPT !.pc = "done", !.out = c.out]
                ELSE Failed(procs[p]))

NextRace ==
    \E p \in Procs :
        \/ RaceValidate(p)
        \/ RaceDiscover(p)
        \/ RaceList(p)
        \/ RaceBranchExists(p)
        \/ RaceAddExisting(p)
        \/ RaceAddBranch(p)
        \/ RaceAddWorktree(p)
        \/ RaceShow(p)

SpecRace == InitRace /\ [][NextRace]_vars

\* the name the two processes were started with
RaceName == procs[1].branchName

Done(p) == procs[p].pc = "done"

\* C20: for two add(b) running side by side, under every interleaving of
\* their backend queries and mutations: at most one of them registers a
\* worktree, at most one makes the branch b, b is never checked out in two
\* worktrees, and an invocation that does not register the worktree ends in
\* Switch with exit 0 or in a refusal by the backend with exit 1.
C20_RaceSafe ==
    /\ Cardinality({p \in Procs : procs[p].madeWorktree}) <= 1
    /\ Cardinality({p \in Procs : procs[p].madeBranch}) <= 1
    /\ Cardinality({w \in DOMAIN head : head[w] = RaceName}) <= 1
    /\ \A p \in Procs :
          (Done(p) /\ ~procs[p].madeWorktree)
          => \/ procs[p].exit = 0 /\ procs[p].kind = "Switch"
                /\ procs[p].out = <<procs[p].targetPath>>
             \/ procs[p].exit = 1
                /\ procs[p].kind \in {"CreateFromExisting", "CreateWithNewBranch"}
    /\ \A p \in Procs :
          (Done(p) /\ procs[p].madeWorktree)
          => procs[p].exit = 0 /\ head[procs[p].targetPath] = RaceName

\* both ran the create path at once: one made the worktree, the other was
\* refused by git
C20_Witness ==
    /\ Done(1) /\ Done(2)
    /\ procs[1].madeWorktree /\ procs[1].exit = 0
    /\ procs[2].kind = "CreateWithNewBranch" /\ procs[2].exit = 1
    /\ ~procs[2].madeBranch

----------------------------------------------------------------------------
(* Failures of add and of remove.                                          *)

\* C21: whenever add exits with code 1, the registered worktrees and the
\* local branches are those of the start of the run: no worktree and no
\* branch made by the failing run remains, also when the failure is in the
\* branch read-back after the worktree was registered.
C21_AddFailureLeavesNothing ==
    (run.cmd = "add" /\ run.exit = 1) => Unchanged

\* the worktree-list query of the run failed
ListFailed == "list" \in run.flt

\* C22: when the worktree-list query fails during remove, the run aborts with
\* a backend failure that is not NotInWorktree; NotInWorktree is reported
\* only when the listing answered and the current directory is the base or
\* is not a registered worktree.
C22_ListFailureDistinct ==
    (IsRemove /\ Started)
    => /\ ListFailed => (run.exit = 1 /\ run.kind = "Failed")
       /\ run.kind = "NotInWorktree"
             => /\ ~ListFailed
                /\ (run.cwd = BaseBefore \/ run.cwd \notin DOMAIN run.preHead)

\* a run of add with a branch argument, or of remove
IsOperation == (run.cmd = "add" /\ Len(run.args) > 0) \/ IsRemove

\* C23: add with a branch argument and remove validate the repository before
\* any other backend call; started outside a repository each exits 1 with
\* NotARepository, having issued no other query and no mutation.
C23_ValidateFirst ==
    IsOperation
    => /\ Len(run.calls) > 0 /\ run.calls[1] = "rev-parse"
       /\ ~Started => /\ run.exit = 1 /\ run.kind = "NotARepository"
                      /\ run.calls = <<"rev-parse">>
                      /\ run.out = <<>>
                      /\ Unchanged

C23_Witness ==
    /\ IsAdd("f") /\ run.cwd = Outside
    /\ run.exit = 1 /\ run.kind = "NotARepository"
    /\ run.calls = <<"rev-parse">>

\* the positions of a command in the calls of the run
At(tag) == {i \in 1..Len(run.calls) : run.calls[i] = tag}

Checkouts == At("checkout") \cup At("checkout-detach")

\* C24: in every run of remove: the confirmation (unless forced) precedes
\* every backend mutation; the worktree list (for the base) and the main
\* branch are read before the working directory is changed and before any
\* checkout; the directory is changed to the base before the checkout; the
\* checkout, normal or detached, is the command completed just before the
\* removal is issued; the base path is emitted only when the removal
\* succeeded.
C24_RemoveOrder ==
    IsRemove
    => /\ ~Forced => \A i \in 1..Len(run.calls) :
                        run.calls[i] \in Mutations => \E j \in At("confirm") : j < i
       /\ \A i \in At("chdir") \cup Checkouts :
             \E j \in At("worktree-list"), k \in At("symbolic-ref") :
                /\ j < k /\ k < i
                /\ \A m \in At("confirm") : m < j
       /\ \A i \in Checkouts : \E j \in At("chdir") : j < i
       /\ \A i \in At("worktree-remove") : i - 1 \in Checkouts
       /\ run.out # <<>> => /\ At("worktree-remove") # {}
                            /\ run.cwd \notin DOMAIN head
                            /\ run.out = <<run.base>>

C24_Witness ==
    /\ Removed /\ ~Forced /\ Asked
    /\ \E i \in At("confirm"), j \in At("chdir"), k \in At("checkout"),
          l \in At("checkout-detach"), m \in At("worktree-remove") :
          i < j /\ j < k /\ k < l /\ l < m

\* the run went on after the location check of remove
PastLocationCheck == IsRemove /\ InSeq("show-current", run.calls)

\* C25: remove goes on past the location check only when the current
\* directory is exactly the path of a registered worktree and is not the
\* computed base; from every other directory of the repository (the base, a
\* subdirectory of a worktree, a directory that is no worktree) it fails with
\* NotInWorktree and changes nothing.
C25_LocationCheck ==
    (IsRemove /\ Started)
    => /\ PastLocationCheck => InNonBaseWorktree
       /\ ~InNonBaseWorktree => /\ run.exit = 1 /\ run.kind = "NotInWorktree"
                                /\ Unchanged /\ NoMutation
                                /\ run.out = <<>>

\* started in a subdirectory of a worktree that is not the base
C25_Witness ==
    /\ IsRemove /\ Started /\ NoFault
    /\ run.cwd \notin DOMAIN run.preHead
    /\ WorktreeOf(run.preHead, run.cwd) # BaseBefore
    /\ run.exit = 1 /\ run.kind = "NotInWorktree"

\* C26: add(b) for a local branch b that is checked out in a worktree at a
\* path other than base/b (the primary checkout, for one) does not switch to
\* that worktree: it attempts CreateFromExisting, git refuses, and add exits
\* 1 with the worktrees and the branches as they were.
C26_CheckedOutElsewhere ==
    \A b \in AddNames :
        (/\ IsAdd(b) /\ Started /\ ~ListFailed
         /\ b \in run.preBranches /\ AttachedBefore(b)
         /\ TargetOf(b) \notin DOMAIN run.preHead)
        => /\ run.kind = "CreateFromExisting"
           /\ InSeq("worktree-add", run.calls)
           /\ run.exit = 1
           /\ run.out = <<>>
           /\ Unchanged

C26_Witness ==
    /\ IsAdd("dev") /\ Started /\ NoFault
    /\ run.preHead[primary] = "dev" /\ ~bare /\ BaseBefore = primary
    /\ run.kind = "CreateFromExisting" /\ run.exit = 1
    /\ InSeq("worktree-add", run.calls) /\ Unchanged

----------------------------------------------------------------------------
(* askForConfirmation on its own, over every answer of a few characters.   *)

AnswerChars == {"y", "Y", "e", "E", "s", "S", "n", " "}

RECURSIVE AnswersOfLen(_)
AnswersOfLen(n) ==
    IF n = 0 THEN {""}
    ELSE {s \o ch : s \in AnswersOfLen(n - 1), ch \in AnswerChars}

\* what the user may type, and the interrupted prompt
ConfirmAnswers ==
    UNION {AnswersOfLen(n) : n \in 0..MaxAnswerLen} \cup {Interrupted}

InitConfirm ==
    /\ bare = FALSE
    /\ primary = StdPrimary
    /\ branches = {"dev"}
    /\ remotes = {}
    /\ remoteHead = ""
    /\ head = [p \in {primary} |-> "dev"]
    /\ dirs = {}
    /\ start = <<>>
    /\ dirty = {}
    /\ procs = <<>>
    /\ \E a \in ConfirmAnswers : run = [NoRun EXCEPT !.answer = a]

\* one call of askForConfirmation answered with run.answer
Confirm ==
    /\ run.cmd = "none"
    /\ LET c == askForConfirmation(Ctx(head, branches, start, {}), run.answer) IN
       run' = [run EXCEPT !.cmd = "askForConfirmation",
                          !.calls = c.calls,
                          !.exit = ExitOf(c),
                          !.kind = IF c.ret THEN "true" ELSE "false"]
    /\ UNCHANGED <<bare, primary, head, branches, start, remotes, remoteHead, dirs,
                   dirty, procs>>

NextConfirm == Confirm

SpecConfirm == InitConfirm /\ [][NextConfirm]_vars

IsConfirm == run.cmd = "askForConfirmation"

\* y and yes in every mix of upper and lower case
Affirmative == {"y", "Y", "yes", "yeS", "yEs", "yES", "Yes", "YeS", "YEs", "YES"}

\* C27: askForConfirmation returns true exactly when the answer, compared
\* without regard to case, is y or yes; every other answer, the empty one and
\* an interrupted prompt included, gives false; it never raises.
C27_ConfirmExact ==
    IsConfirm => /\ run.exit = 0
                 /\ run.kind = "true" <=> run.answer \in Affirmative
                 /\ run.kind \in {"true", "false"}

C27_Witness ==
    /\ IsConfirm /\ run.answer = "YeS" /\ run.kind = "true" /\ run.exit = 0

----------------------------------------------------------------------------
(* Runs on repositories in which a linked worktree was detached by hand.   *)

\* the user runs git checkout --detach in a linked worktree
Detach ==
    /\ run.cmd = "none"
    /\ \E p \in DOMAIN head \ {primary} :
          /\ head[p] # ""
          /\ head' = [head EXCEPT ![p] = ""]
    /\ UNCHANGED <<bare, primary, branches, start, remotes, remoteHead, dirs,
                   dirty, procs, run>>

NextDetached == Add \/ Remove \/ Return \/ Detach

SpecDetached == InitDirty /\ [][NextDetached]_vars

\* a worktree is registered at base/b before the run and its HEAD is detached
DetachedTarget(b) ==
    TargetOf(b) \in DOMAIN run.preHead /\ run.preHead[TargetOf(b)] = ""

\* C28: when the worktree at base/b exists and is detached, add(b) still
\* completes the Switch transition: the empty branch name of the read-back is
\* no error, base/b is emitted and the exit code is 0.
C28_SwitchDetached ==
    \A b \in AddNames :
        (IsAdd(b) /\ Started /\ NoFault /\ DetachedTarget(b))
        => /\ run.kind = "Switch"
           /\ run.exit = 0
           /\ run.out = <<TargetOf(b)>>
           /\ Unchanged

C28_Witness ==
    /\ IsAdd("f") /\ Started /\ NoFault /\ DetachedTarget("f")
    /\ run.kind = "Switch" /\ run.exit = 0 /\ run.out = <<"/rr/f">>
    /\ InSeq("show-current", run.calls)

----------------------------------------------------------------------------
(* The branch-listing fallback of discoverMainBranch.                      *)

\* the call listed the local branches, the listing answered and there is a
\* local branch to list
ListingFallback ==
    /\ IsDiscover /\ InSeq("branch-list", run.calls)
    /\ "branch" \notin run.flt
    /\ run.preBranches # {}

\* C29: when discoverMainBranch reaches the branch-listing fallback, what it
\* returns is exactly the name of an existing local branch: every leading
\* selection marker of the first entry is stripped (current branch, checked
\* out in another worktree, padding) and no entry that is not a branch, such
\* as the detached-HEAD line, is returned.
C29_FallbackIsBranch ==
    ListingFallback => run.mainBranch \in run.preBranches

----------------------------------------------------------------------------
(* The shell function gwtremove, which runs git-worktree-remove.ts as a    *)
(* child process and then moves the shell.  The shell is the record procs: *)
(* the directory it is in after the call, what the function returned and   *)
(* whether the output of the script was shown.                             *)

\* sub occurs in s (grep with a fixed text)
Contains(s, sub) ==
    \E i \in 1..(Len(s) - Len(sub) + 1) : SubSeq(s, i, i + Len(sub) - 1) = sub

\* for branch in "dev" "main" "master"
wrapperBranches == <<"dev", "main", "master">>

\* echo "$worktree_list" | grep "\[$branch\]" | awk '{print $1}', for the
\* first of the three branches that gives a line; "" when none does
RECURSIVE FindMainBranchPath(_, _)
FindMainBranchPath(lines, i) ==
    IF i > Len(wrapperBranches) THEN ""
    ELSE LET hits == SelectSeq(lines, LAMBDA l :
                                 Contains(l, "[" \o wrapperBranches[i] \o "]"))
         IN  IF Len(hits) > 0 THEN FirstColumn(hits[1])
             ELSE FindMainBranchPath(lines, i + 1)

\* awk 'length < length(shortest) || NR==1 {shortest=$0} END {print shortest}'
AwkShortest(lines) ==
    IF Len(lines) = 0 THEN ""
    ELSE LET paths == [i \in 1..Len(lines) |-> FirstColumn(lines[i])]
         IN  ReduceShortest(paths, paths[1], 2)

\* the directory the shell is in still exists with the worktrees h
ShellDirExists(h, dir) ==
    dir = Outside \/ dir \in DOMAIN h \/ dir = primary \o "/s"

\* git worktree list 2>/dev/null, run by the shell in dir: no line when it
\* fails
ShellWorktreeList(h, dir) ==
    IF ShellDirExists(h, dir) /\ InRepo(h, dir) THEN GitWorktreeList(h) ELSE <<>>

\* [ -n "$path" ] && [ -d "$path" ]
IsDirectory(h, path) == path # "" /\ (path \in DOMAIN h \/ path \in dirs)

\* local exit_code=$? right after `if [ -n "$force_flag" ]; then`: the status
\* of the test that has just succeeded, whatever the script exited with
ForceExitCode(scriptExit) == 0

Shell(ret, cwd, shown) == [ret |-> ret, cwd |-> cwd, shown |-> shown]

\* force mode, exit_code = 0 (lines 329-365)
ForceSucceeded(o, dir) ==
    LET worktree_path == IF Len(o.out) > 0 THEN o.out[1] ELSE ""
        found == FindMainBranchPath(ShellWorktreeList(o.head, dir), 1)
        main_branch_path == IF found = "" THEN worktree_path ELSE found
    IN  Shell(0, IF IsDirectory(o.head, main_branch_path)
                 THEN main_branch_path ELSE dir, TRUE)

\* force mode, exit_code # 0 (lines 366-371)
ForceFailed(o, dir) == Shell(1, dir, TRUE)

\* handle force mode results (lines 325-372)
ForceResult(o, dir) ==
    IF ForceExitCode(o.exit) = 0 THEN ForceSucceeded(o, dir) ELSE ForceFailed(o, dir)

\* interactive mode after the script has run (lines 315-322); the script
\* writes to the terminal itself
InteractiveResult(o, dir, main_branch_path) ==
    Shell(o.exit,
          IF o.exit = 0 /\ IsDirectory(o.head, main_branch_path)
          THEN main_branch_path ELSE dir,
          TRUE)

\* interactive mode: the path looked up before the script runs (lines 295-311)
InteractivePath(h, dir) ==
    LET lines == ShellWorktreeList(h, dir)
        found == FindMainBranchPath(lines, 1)
    IN  IF found = "" THEN AwkShortest(lines) ELSE found

\* one call of gwtremove in the shell: the script run and what the shell does
\* with its result
GwtRemove ==
    /\ run.cmd = "none"
    /\ \E args \in {<<>>, <<"--force">>, <<"-f">>}, dir \in Cwds,
          answer \in Answers, flt \in FaultSets :
        /\ Inputs(dir, flt)
        /\ LET force_flag == IF Len(args) > 0 THEN "--force" ELSE ""
               o == RemoveMain(Ctx(head, branches, start, flt),
                               IF force_flag = "" THEN <<>> ELSE <<force_flag>>,
                               dir, answer)
           IN  /\ ~InSeq("confirm", o.calls) => answer = "n"
               /\ Cardinality(DOMAIN o.head) <= MaxLinked + 1
               /\ head' = o.head
               /\ branches' = o.branches
               /\ start' = o.start
               /\ run' = Record("gwtremove", args, dir, answer, flt, o)
               /\ dirty' = dirty \cap DOMAIN o.head
               /\ procs' = IF force_flag = ""
                           THEN InteractiveResult(o, dir, InteractivePath(head, dir))
                           ELSE ForceResult(o, dir)
    /\ UNCHANGED <<bare, primary, remotes, remoteHead, dirs>>

\* the function has returned and the shell prompts again
ReturnShell ==
    /\ run.cmd # "none"
    /\ run' = NoRun
    /\ procs' = <<>>
    /\ UNCHANGED <<bare, primary, head, branches, start, remotes, remoteHead, dirs,
                   dirty>>

NextWrapper == Add \/ GwtRemove \/ ReturnShell

SpecWrapper == InitDirty /\ [][NextWrapper]_vars

IsWrapper == run.cmd = "gwtremove"

\* C30: gwtremove in force mode returns 1, shows the output of the script
\* and leaves the shell in the directory it was called in whenever the
\* script exits non-zero; it returns 0 and changes directory only when the
\* script exited 0.
C30_WrapperForce ==
    (IsWrapper /\ Forced)
    => /\ run.exit # 0 => (procs.ret = 1 /\ procs.shown /\ procs.cwd = run.cwd)
       /\ procs.ret = 0 => run.exit = 0
       /\ procs.cwd # run.cwd => run.exit = 0

----------------------------------------------------------------------------
(* git-worktree-completion.ts: the names offered to the shell for tab      *)
(* completion of gwtadd.                                                   *)

\* the commands of the completion script that may fail for a reason outside
\* the repository state
CompletionFaults == {"list", "branchr"}

\* path.split("/").pop()
RECURSIVE LastComponent(_)
LastComponent(s) ==
    IF ~Contains(s, "/") THEN s ELSE LastComponent(SubSeq(s, 2, Len(s)))

\* line.replace(/^.*origin\//, ""): the text after the last origin/
RECURSIVE StripOrigin(_)
StripOrigin(line) ==
    IF ~Contains(line, "origin/") THEN line
    ELSE IF Contains(SubSeq(line, 2, Len(line)), "origin/")
    THEN StripOrigin(SubSeq(line, 2, Len(line)))
    ELSE SubSeq(line, Len("origin/") + 1, Len(line))

\* git branch -r: the pointer origin/HEAD and the remote-tracking branches,
\* by name, each after two blanks
GitBranchRemote ==
    LET names == SortStrings(remotes)
        ptr   == IF remoteHead = "" THEN <<>>
                 ELSE <<"  origin/HEAD -> origin/" \o remoteHead>>
        upper == SelectSeq(names, LAMBDA n : StrLess(n, "HEAD"))
        lower == SelectSeq(names, LAMBDA n : ~StrLess(n, "HEAD"))
        Line(n) == "  origin/" \o n
    IN  [i \in 1..Len(upper) |-> Line(upper[i])] \o ptr
        \o [i \in 1..Len(lower) |-> Line(lower[i])]

\* the worktree names (lines 311-320): the last component of every listed
\* path but the base
WorktreeNames(worktreePaths, worktreeBase) ==
    LET kept == SelectSeq(worktreePaths,
                          LAMBDA path : path # worktreeBase /\ Len(path) > 0)
        names == [i \in 1..Len(kept) |-> LastComponent(kept[i])]
    IN  SelectSeq(names, LAMBDA n : n # "")

\* the remote branch names (lines 323-337); a failing git branch -r gives none
RemoteBranchNames(c) ==
    IF "branchr" \in c.flt THEN <<>>
    ELSE LET lines    == GitBranchRemote
             trimmed  == [i \in 1..Len(lines) |-> TrimStart(lines[i])]
             noHead   == SelectSeq(trimmed, LAMBDA l : ~Contains(l, "HEAD"))
             stripped == [i \in 1..Len(noHead) |-> StripOrigin(noHead[i])]
         IN  SelectSeq(stripped, LAMBDA b : Len(b) > 0)

Range(seq) == {seq[i] : i \in 1..Len(seq)}

\* [...new Set(completionOptions)].sort()
UniqueSorted(seq) == SortStrings(Range(seq))

\* getCompletionOptions after git worktree list, whose paths are c.ret
CompletionAfterList(c) ==
    IF ~c.ok THEN Ret([c EXCEPT !.ok = TRUE], <<>>)
    ELSE Ret(Call(c, "branch-r"),
             UniqueSorted(WorktreeNames(c.ret, determineWorktreeBase(c.ret))
                          \o RemoteBranchNames(c)))

getCompletionOptions(c, dir) ==
    LET c1 == validateGitRepository(c, dir) IN
    IF ~c1.ok THEN Ret([c1 EXCEPT !.ok = TRUE], <<>>)
    ELSE CompletionAfterList(getWorktreePaths(c1))

\* main of git-worktree-completion.ts: one line per option
CompletionMain(c, dir) ==
    LET c1 == getCompletionOptions(c, dir) IN
    Outcome([c1 EXCEPT !.out = c1.ret], 0, "Completed", "", "", "")

CompletionRemotes == {"main", "f", "HEADER"}

InitComplete ==
    /\ bare \in BOOLEAN
    /\ primary = IF bare THEN BarePrimary ELSE StdPrimary
    /\ remotes \in SUBSET CompletionRemotes
    /\ remoteHead \in {""} \cup (remotes \cap {"main"})
    /\ branches \in {{"dev"}, {"dev", "f"}}
    /\ dirs = {}
    /\ head = [p \in {primary} |-> "dev"]
    /\ start = <<>>
    /\ dirty = {}
    /\ procs = <<>>
    /\ run = NoRun

\* one run of git-worktree-completion.ts
Complete ==
    /\ run.cmd = "none"
    /\ \E dir \in Cwds, flt \in {{}} \cup {{x} : x \in CompletionFaults} :
        /\ Inputs(dir, flt)
        /\ Apply("complete", <<>>, dir, "", flt,
                 CompletionMain(Ctx(head, branches, start, flt), dir))

NextComplete == Add \/ Complete \/ Return

SpecComplete == InitComplete /\ [][NextComplete]_vars

IsComplete == run.cmd = "complete"

\* the names the claim lists: the last component of every registered path but
\* the base, and every remote-tracking branch
ExpectedOptions ==
    {LastComponent(p) : p \in DOMAIN run.preHead \ {BaseBefore}} \cup remotes

\* C31: the completion listing holds the last path component of every
\* registered worktree except the base and every remote-tracking branch name
\* without its remote prefix, and nothing else; it has no duplicates, is
\* sorted, and has no entry for the base or for the bare repository
\* directory; on any backend error the output is empty; the exit code is 0.
C31_Completion ==
    IsComplete
    => /\ run.exit = 0
       /\ (Started /\ NoFault) => Range(run.out) = ExpectedOptions
       /\ \A i, j \in 1..Len(run.out) : i < j => StrLess(run.out[i], run.out[j])
       /\ LastComponent(BaseBefore) \notin Range(run.out)
       /\ bare => LastComponent(primary) \notin Range(run.out)
       /\ (~Started \/ ~NoFault) => run.out = <<>>

----------------------------------------------------------------------------
(* The closed system: a standard repository with the primary checkout      *)
(* alone, changed by runs of add and remove only.                          *)

SpecClosed == InitDirty /\ [][Next]_vars

\* the paths git worktree list gives now, as the scripts read them
ListedNow == getWorktreePaths(Ctx(head, branches, start, {})).ret

\* C32: from a standard repository whose only worktree is the primary
\* checkout P, after every sequence of add(b) and remove, for every branch
\* name b: determineWorktreeBase of the current list is P, every other
\* registered worktree has a path P/b, and the worktree at P/b is attached
\* to branch b.
C32_ClosedLayout ==
    /\ determineWorktreeBase(ListedNow) = primary
    /\ \A p \in DOMAIN head \ {primary} :
          \E b \in AddNames : p = primary \o "/" \o b /\ head[p] = b

----------------------------------------------------------------------------
(* What remove does to the base and to the other worktrees.                *)

\* the base is detached by the run: git checkout --detach <main> was the
\* last checkout and it succeeded
DetachedAtMain ==
    /\ head[BaseBefore] = ""
    /\ \E i \in At("checkout-detach") : run.calls[i + 1] = "worktree-remove"

\* C33: after every successful remove the base is checked out at the
\* resolved main branch, attached to it or detached at its commit, whatever
\* the base had checked out before; so remove changes the checkout of the
\* base whenever the base was on another branch.
C33_BaseOnMain ==
    Removed
    => /\ head[BaseBefore] = MainBefore \/ DetachedAtMain
       /\ run.preHead[BaseBefore] \notin {"", MainBefore}
             => head[BaseBefore] # run.preHead[BaseBefore]

C33_Witness ==
    /\ Removed /\ NoFault
    /\ run.preHead[BaseBefore] \notin {"", MainBefore}
    /\ head[BaseBefore] = MainBefore
    /\ MainBefore \in run.preBranches

\* git refuses both the checkout and the detached checkout at the base: the
\* base is a bare repository, or the main branch is no local branch and no
\* remote-tracking one
BothCheckoutsRefused ==
    /\ At("checkout") # {}
    /\ \/ IsBareEntry(BaseBefore)
       \/ MainBefore \notin run.preBranches \cup remotes

\* what a failed remove leaves as it was: the registered worktrees and what
\* every worktree but the base has checked out
FailedRemoveFrame ==
    /\ run.cwd \in DOMAIN run.preHead => run.cwd \in DOMAIN head
    /\ DOMAIN head = DOMAIN run.preHead
    /\ \A p \in DOMAIN head \ {BaseBefore} : head[p] = run.preHead[p]

\* when both checkouts are refused the run fails without issuing the removal
NoRemovalAfterRefusal ==
    (IsRemove /\ BothCheckoutsRefused)
    => /\ run.exit = 1
       /\ At("checkout-detach") # {}
       /\ At("worktree-remove") = {}

C35_RemovesExactlyOne ==
    /\ DOMAIN head # {} /\ primary \in DOMAIN head
    /\ (IsRemove /\ run.kind = "Removed")
       => /\ run.exit = 0
          /\ run.cwd \in DOMAIN run.preHead
          /\ DOMAIN head = DOMAIN run.preHead \ {run.cwd}
          /\ BaseBefore \in DOMAIN head
          /\ \A p \in DOMAIN head \ {BaseBefore} : head[p] = run.preHead[p]

C35_Witness ==
    /\ IsRemove /\ run.kind = "Removed"
    /\ Cardinality(DOMAIN run.preHead) = 3
    /\ DOMAIN head = DOMAIN run.preHead \ {run.cwd}
    /\ Cardinality(DOMAIN head) = 2

----------------------------------------------------------------------------
(* Runs on repositories whose remote has a branch that add is asked for.   *)

InitRemote ==
    /\ bare \in BOOLEAN
    /\ primary = IF bare THEN BarePrimary ELSE StdPrimary
    /\ branches \in {{"dev"}, {"main", "dev"}}
    /\ remotes \in {{"f"}, {"f", "main"}, {"f", "x.git"}}
    /\ remoteHead \in {""} \cup (remotes \cap {"main"})
    /\ head = [p \in {primary} |-> "dev"]
    /\ dirs = {}
    /\ start = <<>>
    /\ dirty = {}
    /\ procs = <<>>
    /\ run = NoRun

SpecRemote == InitRemote /\ [][Next]_vars

\* the case C36 is about: b is a remote-tracking branch and no local one, and
\* no worktree is registered at base/b
RemoteOnlyCase(b) ==
    /\ IsAdd(b) /\ Started /\ NoFault
    /\ b \in remotes /\ b \notin run.preBranches
    /\ TargetOf(b) \notin DOMAIN run.preHead

\* C36: for a branch name b that exists only as a remote-tracking branch and
\* has no worktree at base/b, add(b) takes the CreateWithNewBranch
\* transition: the new local branch b starts at the resolved main branch,
\* not at the remote-tracking branch of the same name.
C36_RemoteOnlyBranch ==
    \A b \in AddNames :
        RemoteOnlyCase(b)
        => /\ run.kind = "CreateWithNewBranch"
           /\ InSeq("worktree-add-b", run.calls) /\ ~InSeq("worktree-add", run.calls)
           /\ b \in branches => (b \in DOMAIN start /\ start[b] = MainBefore)
           /\ run.exit = 0 => (b \in branches /\ head[TargetOf(b)] = b)

C36_Witness ==
    /\ RemoteOnlyCase("f") /\ run.kind = "CreateWithNewBranch" /\ run.exit = 0
    /\ "f" \in branches /\ start["f"] = MainBefore /\ start["f"] # "origin/f"
    /\ head[TargetOf("f")] = "f"

----------------------------------------------------------------------------
(* Runs on repositories without a branch of a conventional name.           *)

InitUnnamed ==
    /\ bare = FALSE
    /\ primary = StdPrimary
    /\ branches \in {{"a"}, {"a", "f"}, {"a", "dev"}}
    /\ remotes = {}
    /\ remoteHead = ""
    /\ \E made \in (branches \cap {"f"}) \cup {"absent"} :
          head = [p \in {primary} \cup (IF made = "absent" THEN {}
                                        ELSE {primary \o "/" \o made})
                    |-> IF p = primary THEN "a" ELSE made]
    /\ dirs = {}
    /\ start = <<>>
    /\ dirty = {}
    /\ procs = <<>>
    /\ run = NoRun

SpecUnnamed == InitUnnamed /\ [][Next]_vars

\* add(b) run in directory dir on the repository as it was before the run
AddFrom(b, dir) ==
    AddMain(Ctx(run.preHead, run.preBranches, start, {}), <<b>>, dir)

\* C37: the outcome of add(b) does not depend on the directory of the
\* repository it is started in: on the same repository, add(b) run in the
\* primary checkout and add(b) run in any registered worktree choose the same
\* transition, the same target path and the same start branch for a new
\* branch.
C37_DirectoryIndependent ==
    \A b \in AddNames :
        (IsAdd(b) /\ NoFault /\ run.cwd \in DOMAIN run.preHead)
        => \A dir \in DOMAIN run.preHead :
              /\ AddFrom(b, dir).kind = run.kind
              /\ AddFrom(b, dir).target = run.target
              /\ run.kind = "CreateWithNewBranch"
                    => AddFrom(b, dir).mainBranch = run.mainBranch

----------------------------------------------------------------------------
(* The shell after a declined gwtremove.                                   *)

\* C38: when the user declines the confirmation of an interactive gwtremove,
\* the directory of the shell after the command is the one before it: the
\* shell stays in the worktree that was not removed.
C38_DeclineKeepsDirectory ==
    (IsWrapper /\ ~Forced /\ Asked /\ Declined)
    => procs.cwd = run.cwd

====
